---- MODULE Spec2Model ----
(***************************************************************************)
(* Model of the heuristic waste classifier of RecycleRight                 *)
(* (src/models/waste_classifier.py, class WasteClassifier).                *)
(*                                                                         *)
(* Numbers.  Confidences are fixed-point with 1.0 = ConfOne; the metallic  *)
(* score is fixed-point with 1.0 = ScoreOne; texture energy, contour       *)
(* density and metallic colour ratio are per-mille; hue, saturation, value *)
(* and brightness_std are on the 0..255 integer grid of the pixel type.    *)
(* Aspect and fill ratios are compared by cross-multiplication, so no      *)
(* rounding enters the threshold tests.                                    *)
(***************************************************************************)
EXTENDS Integers, Sequences, FiniteSets

VARIABLES
    fs,              \* the labels files at the four candidate paths
    labels,          \* self.labels
    pc,              \* "new" | "idle" | "returned": the single caller's position
    op,              \* the call whose result is held: "none" | "__init__" | ...
    img,             \* the image behind image_path in the held call
    top_type,        \* get_top_prediction's waste_type (None when it failed)
    top_confidence,  \* get_top_prediction's confidence (NoneConfidence when None)
    branch,          \* the branch of get_top_prediction that produced the result
    num_additional,  \* random.randint(2, 4) of the held get_all_predictions call
    predictions,     \* get_all_predictions' returned list
    metallic_score,  \* the metallic score computed in the held call
    calls,           \* the frames of the calls running in concurrent threads
    store,           \* the database: the user's document, scans, challenge rows
    ledger,          \* what the bookkeeping calls have returned so far
    workers          \* the frames of the bookkeeping calls running in threads

vars == <<fs, labels, pc, op, img, top_type, top_confidence, branch,
          num_additional, predictions, metallic_score, calls,
          store, ledger, workers>>

\* the variables of the classifier and those of the points bookkeeping
classifier == <<fs, labels, pc, op, img, top_type, top_confidence, branch,
                num_additional, predictions, metallic_score, calls>>
bookkeeping == <<store, ledger, workers>>

----------------------------------------------------------------------------
(* Bounds of the model: how finely the random sources are sampled.         *)

\* random.uniform(-a, a) is sampled at 2*JitterSteps+1 evenly spaced points
JitterSteps == 1
\* random.uniform(0.3, 0.8) is sampled at FactorSteps+1 evenly spaced points
FactorSteps == 1
\* random.random() behind random.choice is sampled at RandSteps+1 points
RandSteps == 1

----------------------------------------------------------------------------
(* Python values.                                                          *)

\* None as a waste_type
None == "<None>"
\* None as a confidence
NoneConfidence == 0 - 1
\* metallic_score where the call never bound it
NoScore == 0 - 1

Min(a, b) == IF a <= b THEN a ELSE b

\* a truthiness test that lets None through
NeverFalsy(t) == FALSE

\* Python truthiness of a waste_type: None and '' are falsy
Falsy(t) == t = None \/ t = ""

----------------------------------------------------------------------------
(* _load_labels                                                            *)

\* the built-in fallback list
DEFAULT_LABELS ==
    << "plastic_bottle", "glass_bottle", "aluminum_can", "paper", "cardboard",
       "plastic_bag", "food_waste", "styrofoam", "electronic_waste", "batteries",
       "light_bulb", "clothing", "metal", "plastic_container", "tetra_pak" >>

\* A text line: `lead` blanks, a text without surrounding white space, `trail`
\* trailing white-space characters (the newline among them).
Line(lead, text, trail) == [lead |-> lead, text |-> text, trail |-> trail]

\* str.strip(): drops the leading and trailing white space of a line
strip(line) == line.text

\* A candidate path: nothing there, a file whose open()/readlines() raises,
\* or a readable file with its lines.
Missing == [exists |-> FALSE, readable |-> FALSE, lines |-> <<>>]
Unreadable == [exists |-> TRUE, readable |-> FALSE, lines |-> <<>>]
Readable(lines) == [exists |-> TRUE, readable |-> TRUE, lines |-> lines]

\* The candidate paths in the order _load_labels tries them: labels_path,
\* labels_path_alt, base_dir/labels_path, base_dir/labels_path_alt.
CandidatePaths == 1..4

\* [line.strip() for line in f.readlines()]
ReadLabels(file) == [i \in 1..Len(file.lines) |-> strip(file.lines[i])]

\* _load_labels with the except branch replaced by an empty list
_load_labels_no_fallback(files) ==
    LET found == {p \in CandidatePaths : files[p].exists}
    IN  IF found = {} THEN DEFAULT_LABELS
        ELSE LET first == CHOOSE p \in found : \A q \in found : p <= q
             IN  IF files[first].readable THEN ReadLabels(files[first])
                 ELSE <<>>

\* _load_labels: the first candidate that exists is opened and read; an
\* exception while reading, or no candidate at all, gives the default list.
_load_labels(files) ==
    LET found == {p \in CandidatePaths : files[p].exists}
    IN  IF found = {} THEN DEFAULT_LABELS
        ELSE LET first == CHOOSE p \in found : \A q \in found : p <= q
             IN  IF files[first].readable THEN ReadLabels(files[first])
                 ELSE DEFAULT_LABELS

\* Contents of a labels file in the model: empty, two labels foreign to the
\* cascade, two cascade labels, a file with a blank line, and a file in
\* which two lines hold the same label.
FileContents ==
    { <<>>,
      << Line(0, "glass", 1), Line(0, "metal", 1) >>,
      << Line(0, "aluminum_can", 1), Line(1, "paper", 2) >>,
      << Line(0, "paper", 1), Line(2, "", 1), Line(0, "aluminum_can", 1) >>,
      << Line(0, "aluminum_can", 1), Line(0, "paper", 1), Line(1, "paper", 1) >> }

Files == {Missing, Unreadable} \cup {Readable(c) : c \in FileContents}

\* every arrangement of the four candidate paths
FsStates == [CandidatePaths -> Files]

\* arrangements in which only labels_path may hold a file
NoFiles == [p \in CandidatePaths |-> Missing]
MainFs == {[NoFiles EXCEPT ![1] = f] : f \in Files}

----------------------------------------------------------------------------
(* Images.  An image is represented by what cv2 computes from it.          *)

\* The image behind image_path.  decode: "ok", "none" (cv2.imread returns
\* None) or "raises" (cv2.imread raises, e.g. image_path is no path).
\* contours: number of Canny contours; w, h: bounding box of the largest
\* one; area2: twice its cv2.contourArea (contourArea is a multiple of 0.5).
Image(decode, hue, sat, val, std, contours, w, h, area2, surface) ==
    [decode |-> decode, avg_hue |-> hue, avg_saturation |-> sat,
     avg_value |-> val, brightness_std |-> std, contours |-> contours,
     w |-> w, h |-> h, area2 |-> area2, surface |-> surface]

\* What _detect_metallic_surface measures besides brightness_std:
\* texture_energy and metallic_color_ratio per-mille, the number of Otsu
\* contours, img.shape[0] * img.shape[1], and whether a cv2 call raises.
Surface(te, n, pixels, mcr, raises) ==
    [texture_energy |-> te, otsu_contours |-> n, pixels |-> pixels,
     metallic_color_ratio |-> mcr, raises |-> raises]

NoSurface == Surface(0, 0, 1, 0, FALSE)
NoImage == Image("none", 0, 0, 0, 0, 0, 0, 0, 0, NoSurface)
RaisingImage == Image("raises", 0, 0, 0, 0, 0, 0, 0, 0, NoSurface)

\* how finely the contour area is sampled between 0 and the largest area a
\* contour with the given bounding box can enclose
FillSteps == 2

\* values on either side of every threshold of the cascade
HueValues == {20, 45, 90}
SaturationValues == {15, 30, 45, 60}
ValueValues == {140, 155, 165, 180}
BrightnessStdValues == {20, 28, 35, 40, 45, 55}

\* bounding boxes <<w, h>> with aspect ratios 0.5, 1.2, 1.5, 2.0, 2.25, 2.5,
\* 3.0 and 4.0
Shapes == { <<20, 10>>, <<10, 12>>, <<10, 15>>, <<10, 20>>, <<8, 18>>,
            <<10, 25>>, <<10, 30>>, <<10, 40>> }

\* twice the contour area: from 0 to the full box between the pixel centres
Areas2(w, h) == { (2 * (w - 1) * (h - 1) * q) \div FillSteps : q \in 0..FillSteps }

Surfaces ==
    { Surface(te, d[1], d[2], mcr, FALSE) :
        te \in {0, 500, 1000}, d \in { <<1, 250000>>, <<25, 10000>> },
        mcr \in {0, 1000} }
    \cup { Surface(0, 0, 1, 0, TRUE) }

\* a decodable image in which cv2.Canny finds no edge
BlankImages(H, S, V, B) ==
    { Image("ok", c[1], c[2], c[3], c[4], 0, 0, 0, 0, NoSurface) :
        c \in H \X S \X V \X B }

\* the images of the main specification: a can, a sheet of paper and a
\* bottle (aspect ratios 1.2, 1.2 and 3.0), an image without edges, and two
\* that do not decode
RankImages ==
    { Image("ok", 20, 30, 180, 45, 1, 10, 12, 198, Surface(0, 1, 250000, 0, FALSE)),
      Image("ok", 20, 30, 180, 45, 1, 10, 12, 0, Surface(0, 1, 250000, 0, FALSE)),
      Image("ok", 20, 30, 180, 45, 1, 10, 30, 0, Surface(0, 1, 250000, 0, FALSE)) }
    \cup BlankImages({20}, {15}, {180}, {20})
    \cup {NoImage, RaisingImage}

----------------------------------------------------------------------------
(* Random sources.                                                         *)

\* 1.0 as a confidence
ConfOne == 1000000

\* random.uniform(lo, hi), sampled at point k of 0..n
Uniform(lo, hi, k, n) == lo + ((hi - lo) * k) \div n

\* base + random.uniform(-amp, amp) with the jitter wider by a factor of ten
JitteredWide(base, amp, j) == base + Uniform(0 - 10 * amp, 10 * amp, j, 2 * JitterSteps)

\* base + random.uniform(-amp, amp), the confidence of every branch
Jittered(base, amp, j) == base + Uniform(0 - amp, amp, j, 2 * JitterSteps)

\* the points at which the jitter is sampled: random.uniform is called
\* once, and only for an image that decoded
JitterDraws(image) == IF image.decode = "ok" THEN 0..(2 * JitterSteps) ELSE {0}

\* the points at which random.choice(self.labels) is sampled: it is called
\* only for a decoded image without contours
ChoiceDraws(image) ==
    IF image.decode = "ok" /\ image.contours = 0 THEN 0..RandSteps ELSE {0}

\* random.choice(seq) for a non-empty seq: seq[int(random() * len(seq))],
\* random() sampled at u / (RandSteps + 1)
ChoiceIndex(seq, u) == 1 + (u * Len(seq)) \div (RandSteps + 1)

----------------------------------------------------------------------------
(* _detect_metallic_surface                                                *)

\* 1.0 as a metallic score: scores are in units of 1 / (2 * 255 * 1000 * 10)
ScoreOne == 5100000

\* len(contours) / (shape[0] * shape[1]) * 10000 without the cap at 1.0
contour_density_uncapped(s) == (s.otsu_contours * 10000 * 1000) \div s.pixels

\* min(len(contours) / (shape[0] * shape[1]) * 10000, 1.0), per-mille
contour_density(s) == Min((s.otsu_contours * 10000 * 1000) \div s.pixels, 1000)

\* brightness_std*0.3 + texture_energy*0.3 + contour_density*0.2
\* + metallic_color_ratio*0.2, with 1.0 = 255 * 1000 * 10
WeightedSum(image) ==
    3 * 1000 * image.brightness_std
    + 3 * 255 * image.surface.texture_energy
    + 2 * 255 * contour_density(image.surface)
    + 2 * 255 * image.surface.metallic_color_ratio

\* the scaled score returned without the cap at 1.0
_detect_metallic_surface_uncapped(image) ==
    IF image.surface.raises THEN 0
    ELSE 3 * WeightedSum(image)

\* _detect_metallic_surface: min(metallic_score * 1.5, 1.0), 0.0 on an exception
_detect_metallic_surface(image) ==
    IF image.surface.raises THEN 0
    ELSE Min(3 * WeightedSum(image), ScoreOne)

----------------------------------------------------------------------------
(* get_top_prediction                                                      *)

\* a result whose label is replaced by plastic_container when the jittered
\* confidence falls below 0.85
ResultRelabelled(type, confidence, br) ==
    [type |-> IF type # None /\ confidence < 850000 THEN "plastic_container" ELSE type,
     confidence |-> confidence, branch |-> br]

\* return waste_type, confidence (with the branch that produced them)
Result(type, confidence, br) == [type |-> type, confidence |-> confidence, branch |-> br]

\* return None, None
Failed(br) == Result(None, NoneConfidence, br)

\* aspect_ratio = float(h) / w if w > 0 else 0, as the fraction num / den
AspectNum(image) == IF image.w > 0 THEN image.h ELSE 0
AspectDen(image) == IF image.w > 0 THEN image.w ELSE 1

\* 2.0 < aspect_ratio < 4.0: the bottle range with its lower end moved up
is_bottle_shape_narrow(image) ==
    /\ 2 * AspectDen(image) < AspectNum(image)
    /\ AspectNum(image) < 4 * AspectDen(image)

\* 1.5 < aspect_ratio < 4.0
is_bottle_shape(image) ==
    /\ 15 * AspectDen(image) < 10 * AspectNum(image)
    /\ AspectNum(image) < 4 * AspectDen(image)

\* aspect_ratio < 2.0 or (0.8 < aspect_ratio < 2.5) with only its second
\* disjunct: flat contours no longer pass
is_can_shape_bounded(image) ==
    /\ 8 * AspectDen(image) < 10 * AspectNum(image)
    /\ 10 * AspectNum(image) < 25 * AspectDen(image)

\* aspect_ratio < 2.0 or (0.8 < aspect_ratio < 2.5)
is_can_shape(image) ==
    \/ AspectNum(image) < 2 * AspectDen(image)
    \/ /\ 8 * AspectDen(image) < 10 * AspectNum(image)
       /\ 10 * AspectNum(image) < 25 * AspectDen(image)

\* metallic_score > 0.6 or avg_value > 160: the brightness test without its
\* brightness_std part
is_metallic_bright(image) ==
    \/ 10 * _detect_metallic_surface(image) > 6 * ScoreOne
    \/ image.avg_value > 160

\* metallic_score > 0.6 or (avg_value > 160 and brightness_std > 25)
is_metallic(image) ==
    \/ 10 * _detect_metallic_surface(image) > 6 * ScoreOne
    \/ (image.avg_value > 160 /\ image.brightness_std > 25)

\* cv2.contourArea(largest_contour) / (w * h) > 0.65, for w * h > 0
fills_box(image) == 100 * image.area2 > 2 * 65 * image.w * image.h

\* the else branch without its final else: waste_type stays unbound and the
\* return statement raises into the except branch
FallbackBranchNoDefault(image, j) ==
    IF 10 * _detect_metallic_surface(image) > 5 * ScoreOne
    THEN Result("aluminum_can", Jittered(700000, 100000, j), "fallback_can")
    ELSE IF image.avg_hue < 30 /\ image.avg_value < 150 /\ image.avg_saturation > 20
    THEN Result("cardboard", Jittered(750000, 100000, j), "cardboard")
    ELSE IF image.avg_hue < 60 /\ image.avg_value > 170 /\ image.brightness_std < 50
    THEN Result("paper", Jittered(720000, 100000, j), "paper")
    ELSE Failed("raised")

\* the else branch with the cardboard test ahead of the metallic test
FallbackBranchCardboardFirst(image, j) ==
    IF image.avg_hue < 30 /\ image.avg_value < 150 /\ image.avg_saturation > 20
    THEN Result("cardboard", Jittered(750000, 100000, j), "cardboard")
    ELSE IF 10 * _detect_metallic_surface(image) > 5 * ScoreOne
    THEN Result("aluminum_can", Jittered(700000, 100000, j), "fallback_can")
    ELSE IF image.avg_hue < 60 /\ image.avg_value > 170 /\ image.brightness_std < 50
    THEN Result("paper", Jittered(720000, 100000, j), "paper")
    ELSE Result("plastic_container", Jittered(700000, 100000, j), "default")

\* the else branch of the cascade: metallic fallback, cardboard, paper, and
\* plastic_container for everything else
FallbackBranch(image, j) ==
    IF 10 * _detect_metallic_surface(image) > 5 * ScoreOne
    THEN Result("aluminum_can", Jittered(700000, 100000, j), "fallback_can")
    ELSE IF image.avg_hue < 30 /\ image.avg_value < 150 /\ image.avg_saturation > 20
    THEN Result("cardboard", Jittered(750000, 100000, j), "cardboard")
    ELSE IF image.avg_hue < 60 /\ image.avg_value > 170 /\ image.brightness_std < 50
    THEN Result("paper", Jittered(720000, 100000, j), "paper")
    ELSE Result("plastic_container", Jittered(700000, 100000, j), "default")

\* the if/elif chain with the glass-bottle test ahead of the plastic-bottle
\* test
CascadeGlassFirst(image, j) ==
    IF is_can_shape(image) /\ is_metallic(image) /\ image.w * image.h = 0
    THEN Failed("raised")
    ELSE IF is_can_shape(image) /\ is_metallic(image) /\ fills_box(image)
    THEN Result("aluminum_can", Jittered(880000, 50000, j), "can")
    ELSE IF /\ image.brightness_std > 30
            /\ image.avg_saturation < 40
            /\ is_bottle_shape(image)
            /\ image.avg_value > 150
    THEN Result("glass_bottle", Jittered(820000, 50000, j), "glass_bottle")
    ELSE IF /\ image.brightness_std > 40
            /\ image.avg_saturation < 50
            /\ is_bottle_shape(image)
    THEN Result("plastic_bottle", Jittered(850000, 50000, j), "plastic_bottle")
    ELSE FallbackBranch(image, j)

\* the if/elif chain with the plastic-bottle test ahead of the can test
CascadeBottleFirst(image, j) ==
    IF /\ image.brightness_std > 40
       /\ image.avg_saturation < 50
       /\ is_bottle_shape(image)
    THEN Result("plastic_bottle", Jittered(850000, 50000, j), "plastic_bottle")
    ELSE IF is_can_shape(image) /\ is_metallic(image) /\ image.w * image.h = 0
    THEN Failed("raised")
    ELSE IF is_can_shape(image) /\ is_metallic(image) /\ fills_box(image)
    THEN Result("aluminum_can", Jittered(880000, 50000, j), "can")
    ELSE IF /\ image.brightness_std > 30
            /\ image.avg_saturation < 40
            /\ is_bottle_shape(image)
            /\ image.avg_value > 150
    THEN Result("glass_bottle", Jittered(820000, 50000, j), "glass_bottle")
    ELSE FallbackBranch(image, j)

\* the if/elif chain over an image with a contour.  The can test evaluates
\* its three conjuncts left to right; the third divides by w * h, and a
\* ZeroDivisionError lands in the except branch of get_top_prediction.
Cascade(image, j) ==
    IF is_can_shape(image) /\ is_metallic(image) /\ image.w * image.h = 0
    THEN Failed("raised")
    ELSE IF is_can_shape(image) /\ is_metallic(image) /\ fills_box(image)
    THEN Result("aluminum_can", Jittered(880000, 50000, j), "can")
    ELSE IF /\ image.brightness_std > 40
            /\ image.avg_saturation < 50
            /\ is_bottle_shape(image)
    THEN Result("plastic_bottle", Jittered(850000, 50000, j), "plastic_bottle")
    ELSE IF /\ image.brightness_std > 30
            /\ image.avg_saturation < 40
            /\ is_bottle_shape(image)
            /\ image.avg_value > 150
    THEN Result("glass_bottle", Jittered(820000, 50000, j), "glass_bottle")
    ELSE FallbackBranch(image, j)

\* the branch for an image without contours: random.choice(self.labels),
\* which raises IndexError on an empty list, and 0.60 +- 0.1
NoContour(lbls, j, u) ==
    IF Len(lbls) = 0 THEN Failed("raised")
    ELSE Result(lbls[ChoiceIndex(lbls, u)], Jittered(600000, 100000, j), "no_contour")

\* the local metallic_score when get_top_prediction returns: it is bound
\* only inside `if len(contours) > 0`
metallic_score_local(image) ==
    IF image.decode = "ok" /\ image.contours > 0
    THEN _detect_metallic_surface(image)
    ELSE NoScore

\* get_top_prediction(image_path) with the draws j (jitter) and u (choice)
TopPrediction(image, lbls, j, u) ==
    IF image.decode = "raises" THEN Failed("raised")
    ELSE IF image.decode = "none" THEN Failed("unreadable")
    ELSE IF image.contours > 0 THEN Cascade(image, j)
    ELSE NoContour(lbls, j, u)

----------------------------------------------------------------------------
(* get_all_predictions                                                     *)

Prediction(label, confidence) == [label |-> label, confidence |-> confidence]

\* the whole vocabulary, the top label not filtered out
remaining_all(lbls, type) == lbls

\* [label for label in self.labels if label != top_type]
remaining_labels(lbls, type) ==
    LET Other(l) == l # type IN SelectSeq(lbls, Other)

\* list.remove(x): drops the first element equal to x
RECURSIVE Remove(_, _)
Remove(seq, x) ==
    IF seq = <<>> THEN <<>>
    ELSE IF Head(seq) = x THEN Tail(seq)
    ELSE <<Head(seq)>> \o Remove(Tail(seq), x)

\* top_confidence - random.uniform(0.3, 0.8): the factor subtracted
rand_confidence_minus(confidence, f) == confidence - Uniform(30, 80, f, FactorSteps) * 10000

\* the alternative given the top confidence itself, the factor left out
rand_confidence_unscaled(confidence, f) == confidence

\* top_confidence * random.uniform(0.3, 1.0): the factor may reach 1
rand_confidence_wide(confidence, f) == (confidence * Uniform(30, 100, f, FactorSteps)) \div 100

\* top_confidence * random.uniform(0.3, 0.8), the factor in per cent
rand_confidence(confidence, f) == (confidence * Uniform(30, 80, f, FactorSteps)) \div 100

\* the loop `for _ in range(num_additional)`, from iteration i on, with the
\* draws us (choices) and fcs (factors)
RECURSIVE Additional(_, _, _, _, _, _, _)
Additional(preds, remaining, confidence, i, k, us, fcs) ==
    IF i > k \/ remaining = <<>> THEN preds
    ELSE LET rand_label == remaining[ChoiceIndex(remaining, us[i])]
         IN  Additional(Append(preds, Prediction(rand_label, rand_confidence(confidence, fcs[i]))),
                        Remove(remaining, rand_label), confidence, i + 1, k, us, fcs)

\* where list.sort(reverse=True) puts x among the already sorted elements:
\* after every element whose confidence is at least x's (the sort is stable)
RECURSIVE InsertDescending(_, _)
InsertDescending(sorted, x) ==
    IF sorted = <<>> THEN <<x>>
    ELSE IF Head(sorted).confidence >= x.confidence
         THEN <<Head(sorted)>> \o InsertDescending(Tail(sorted), x)
         ELSE <<x>> \o sorted

RECURSIVE SortedFrom(_, _)
SortedFrom(sorted, rest) ==
    IF rest = <<>> THEN sorted
    ELSE SortedFrom(InsertDescending(sorted, Head(rest)), Tail(rest))

\* the list left in insertion order
SortSkipped(preds) == preds

\* predictions.sort(key=lambda x: x["confidence"], reverse=True)
SortDescending(preds) == SortedFrom(<<>>, preds)

\* get_all_predictions after its get_top_prediction call returned top
AllPredictions(top, lbls, k, us, fcs) ==
    IF Falsy(top.type) THEN <<>>
    ELSE SortDescending(
             Additional(<<Prediction(top.type, top.confidence)>>,
                        remaining_labels(lbls, top.type), top.confidence,
                        1, k, us, fcs))

----------------------------------------------------------------------------
(* Operations.                                                             *)

NoCall ==
    /\ img = NoImage
    /\ top_type = None
    /\ top_confidence = NoneConfidence
    /\ branch = "none"
    /\ num_additional = 0
    /\ predictions = <<>>
    /\ metallic_score = NoScore

\* WasteClassifier(model_path, labels_path)
__init__ ==
    /\ pc = "new"
    /\ labels' = _load_labels(fs)
    /\ pc' = "idle"
    /\ op' = "__init__"
    /\ UNCHANGED <<fs, img, top_type, top_confidence, branch, num_additional,
                   predictions, metallic_score, calls>>
    /\ UNCHANGED bookkeeping

\* classifier.get_top_prediction(image_path) returning for `image` with the
\* draws j (jitter) and u (choice)
ReturnTop(image, j, u) ==
    LET top == TopPrediction(image, labels, j, u)
    IN  /\ img' = image
        /\ top_type' = top.type
        /\ top_confidence' = top.confidence
        /\ branch' = top.branch
        /\ num_additional' = 0
        /\ predictions' = <<>>
        /\ metallic_score' = metallic_score_local(image)
        /\ pc' = "returned"
        /\ op' = "get_top_prediction"
        /\ UNCHANGED <<fs, labels, calls>>
        /\ UNCHANGED bookkeeping

\* get_all_predictions with the filter applied to self.labels itself, as if
\* line 312 had removed the top label from the instance's list in place
ReturnAllAliased(image, j, u) ==
    LET top == TopPrediction(image, labels, j, u)
    IN  /\ img' = image
        /\ top_type' = top.type
        /\ top_confidence' = top.confidence
        /\ branch' = top.branch
        /\ IF Falsy(top.type)
           THEN /\ num_additional' = 0
                /\ predictions' = AllPredictions(top, labels, 0, <<>>, <<>>)
                /\ labels' = labels
           ELSE \E k \in 2..4 :
                  \E us \in [1..k -> 0..RandSteps], fcs \in [1..k -> 0..FactorSteps] :
                     /\ num_additional' = k
                     /\ predictions' = AllPredictions(top, labels, k, us, fcs)
                     /\ labels' = remaining_labels(labels, top.type)
        /\ metallic_score' = metallic_score_local(image)
        /\ pc' = "returned"
        /\ op' = "get_all_predictions"
        /\ UNCHANGED <<fs, calls>>
        /\ UNCHANGED bookkeeping

\* classifier.get_all_predictions(image_path) returning for `image` with the
\* draws j, u of its get_top_prediction call.  With a top label it draws
\* k = random.randint(2, 4) and then us (choices) and fcs (factors) in the
\* loop; without one it returns [] before any draw.
ReturnAll(image, j, u) ==
    LET top == TopPrediction(image, labels, j, u)
    IN  /\ img' = image
        /\ top_type' = top.type
        /\ top_confidence' = top.confidence
        /\ branch' = top.branch
        /\ IF Falsy(top.type)
           THEN /\ num_additional' = 0
                /\ predictions' = AllPredictions(top, labels, 0, <<>>, <<>>)
           ELSE \E k \in 2..4 :
                  \E us \in [1..k -> 0..RandSteps], fcs \in [1..k -> 0..FactorSteps] :
                     /\ num_additional' = k
                     /\ predictions' = AllPredictions(top, labels, k, us, fcs)
        /\ metallic_score' = metallic_score_local(image)
        /\ pc' = "returned"
        /\ op' = "get_all_predictions"
        /\ UNCHANGED <<fs, labels, calls>>
        /\ UNCHANGED bookkeeping

\* classifier._detect_metallic_surface(img) returning for the decoded
\* array `image`
ReturnScore(image) ==
    /\ img' = image
    /\ metallic_score' = _detect_metallic_surface(image)
    /\ top_type' = None
    /\ top_confidence' = NoneConfidence
    /\ branch' = "none"
    /\ num_additional' = 0
    /\ predictions' = <<>>
    /\ pc' = "returned"
    /\ op' = "_detect_metallic_surface"
    /\ UNCHANGED <<fs, labels, calls>>
    /\ UNCHANGED bookkeeping

\* the arrays of the main specification that _detect_metallic_surface is
\* called on directly: the decoded images with a contour, and one on which
\* a cv2 call raises
ScoredImages ==
    { image \in RankImages : image.decode = "ok" /\ image.contours > 0 }
    \cup { Image("ok", 20, 30, 180, 45, 1, 10, 12, 198, Surface(0, 0, 1, 0, TRUE)) }

_detect_metallic_surface_call ==
    /\ pc = "idle"
    /\ \E image \in ScoredImages : ReturnScore(image)

\* how finely the components of the metallic score are sampled over their
\* ranges
SurfaceSteps == 4

\* texture_energy and metallic_color_ratio over [0, 1], per-mille
PerMilleGrid == { (1000 * q) \div SurfaceSteps : q \in 0..SurfaceSteps }

\* np.std(gray) of an 8-bit image: from 0 to 127 (half the value range)
StdGrid == { (127 * q) \div SurfaceSteps : q \in 0..SurfaceSteps }

\* <<number of Otsu contours, pixels>>: contour densities 0, 0.04, 0.4, 1.0
\* and, before the cap, 25.0
Densities ==
    { <<0, 10000>>, <<1, 250000>>, <<10, 250000>>, <<25, 250000>>, <<1, 10000>>,
      <<25, 10000>> }

\* _detect_metallic_surface over the grid of its four components, and on an
\* array for which a cv2 call raises
score_surface ==
    /\ pc = "idle"
    /\ \/ \E std \in StdGrid, te \in PerMilleGrid, mcr \in PerMilleGrid, d \in Densities :
             ReturnScore(Image("ok", 0, 0, 0, std, 0, 0, 0, 0,
                               Surface(te, d[1], d[2], mcr, FALSE)))
       \/ ReturnScore(Image("ok", 0, 0, 0, 0, 0, 0, 0, 0, Surface(0, 0, 1, 0, TRUE)))

get_top_prediction ==
    /\ pc = "idle"
    /\ \E image \in RankImages :
         \E j \in JitterDraws(image), u \in ChoiceDraws(image) :
            ReturnTop(image, j, u)

get_all_predictions ==
    /\ pc = "idle"
    /\ \E image \in RankImages :
         \E j \in JitterDraws(image), u \in ChoiceDraws(image) :
            ReturnAll(image, j, u)

\* get_top_prediction over the whole grid of feature values
classify ==
    /\ pc = "idle"
    /\ \/ \E hue \in HueValues, sat \in SaturationValues, val \in ValueValues,
             std \in BrightnessStdValues, sh \in Shapes, su \in Surfaces :
             \E a \in Areas2(sh[1], sh[2]), j \in 0..(2 * JitterSteps) :
                ReturnTop(Image("ok", hue, sat, val, std, 1, sh[1], sh[2], a, su), j, 0)
       \/ \E image \in BlankImages({20}, {15}, {180}, {20}) \cup {NoImage, RaisingImage} :
             \E j \in JitterDraws(image), u \in ChoiceDraws(image) :
                ReturnTop(image, j, u)

\* the caller has used the result; the next request can come
consume ==
    /\ pc = "returned"
    /\ pc' = "idle"
    /\ op' = "none"
    /\ img' = NoImage
    /\ top_type' = None
    /\ top_confidence' = NoneConfidence
    /\ branch' = "none"
    /\ num_additional' = 0
    /\ predictions' = <<>>
    /\ metallic_score' = NoScore
    /\ UNCHANGED <<fs, labels, calls>>
    /\ UNCHANGED bookkeeping

----------------------------------------------------------------------------
(* Calls from concurrent threads on the one instance.  The web application *)
(* holds a single WasteClassifier and serves requests from several threads *)
(* without a lock.  A call is cut into steps at its reads of self.labels:  *)
(* line 282 inside get_top_prediction, line 312 in get_all_predictions;    *)
(* the loop of get_all_predictions takes one step per iteration.           *)

ThreadIds == {"t1", "t2"}

\* the frame of a thread: its position, the method it runs, and the locals
\* image_path, (top_type, top_confidence), num_additional, the loop counter,
\* remaining_labels and predictions
Frame(at, method, image, type, confidence, k, i, remaining, preds) ==
    [at |-> at, method |-> method, img |-> image, type |-> type,
     confidence |-> confidence, k |-> k, i |-> i, remaining |-> remaining,
     preds |-> preds]

IdleFrame == Frame("idle", "none", NoImage, None, NoneConfidence, 0, 0, <<>>, <<>>)

NoCalls == [t \in ThreadIds |-> IdleFrame]

\* the images the threads classify: a can, an image without edges and one
\* that does not decode
ThreadImages ==
    { Image("ok", 20, 30, 180, 45, 1, 10, 12, 198, Surface(0, 1, 250000, 0, FALSE)) }
    \cup BlankImages({20}, {15}, {180}, {20})
    \cup {NoImage}

\* the variables of the sequential caller
held_call ==
    <<pc, op, img, top_type, top_confidence, branch, num_additional, predictions,
      metallic_score>>

\* thread t enters get_top_prediction or get_all_predictions
thread_call(t) ==
    /\ pc = "idle"
    /\ calls[t].at = "idle"
    /\ \E image \in ThreadImages, method \in {"get_top_prediction", "get_all_predictions"} :
          calls' = [calls EXCEPT ![t] =
                       Frame("entered", method, image, None, NoneConfidence, 0, 0, <<>>, <<>>)]
    /\ UNCHANGED <<fs, labels>>
    /\ UNCHANGED held_call
    /\ UNCHANGED bookkeeping

\* the body of get_top_prediction in thread t, reading self.labels as it is
\* now; in get_all_predictions the result is bound to top_type, top_confidence
thread_top(t) ==
    LET f == calls[t]
    IN  /\ f.at = "entered"
        /\ \E j \in JitterDraws(f.img), u \in ChoiceDraws(f.img) :
              LET top == TopPrediction(f.img, labels, j, u)
              IN  calls' = [calls EXCEPT ![t] =
                      Frame(IF f.method = "get_top_prediction" THEN "done" ELSE "top_returned",
                            f.method, f.img, top.type, top.confidence, 0, 0, <<>>, <<>>)]
        /\ UNCHANGED <<fs, labels>>
        /\ UNCHANGED held_call
        /\ UNCHANGED bookkeeping

\* get_all_predictions in thread t from `if not top_type` to the loop head:
\* return [], or randint(2, 4) and the list comprehension over self.labels
thread_begin(t) ==
    LET f == calls[t]
    IN  /\ f.at = "top_returned"
        /\ IF Falsy(f.type)
           THEN calls' = [calls EXCEPT ![t] =
                    Frame("done", f.method, f.img, f.type, f.confidence, 0, 0, <<>>, <<>>)]
           ELSE \E k \in 2..4 :
                   calls' = [calls EXCEPT ![t] =
                       Frame("loop", f.method, f.img, f.type, f.confidence, k, 1,
                             remaining_labels(labels, f.type),
                             <<Prediction(f.type, f.confidence)>>)]
        /\ UNCHANGED <<fs, labels>>
        /\ UNCHANGED held_call
        /\ UNCHANGED bookkeeping

\* one iteration of the loop with remaining_labels.remove(rand_label) acting
\* on self.labels too, as if remaining_labels were an alias of it
thread_pick_shared(t) ==
    LET f == calls[t]
    IN  /\ f.at = "loop"
        /\ f.i <= f.k
        /\ f.remaining # <<>>
        /\ \E u \in 0..RandSteps, fc \in 0..FactorSteps :
              LET rand_label == f.remaining[ChoiceIndex(f.remaining, u)]
              IN  /\ calls' = [calls EXCEPT ![t] =
                        Frame("loop", f.method, f.img, f.type, f.confidence, f.k, f.i + 1,
                              Remove(f.remaining, rand_label),
                              Append(f.preds,
                                     Prediction(rand_label, rand_confidence(f.confidence, fc))))]
                  /\ labels' = Remove(labels, rand_label)
        /\ UNCHANGED fs
        /\ UNCHANGED held_call
        /\ UNCHANGED bookkeeping

\* one iteration of the loop in thread t: random.choice, append, remove
thread_pick(t) ==
    LET f == calls[t]
    IN  /\ f.at = "loop"
        /\ f.i <= f.k
        /\ f.remaining # <<>>
        /\ \E u \in 0..RandSteps, fc \in 0..FactorSteps :
              LET rand_label == f.remaining[ChoiceIndex(f.remaining, u)]
              IN  calls' = [calls EXCEPT ![t] =
                      Frame("loop", f.method, f.img, f.type, f.confidence, f.k, f.i + 1,
                            Remove(f.remaining, rand_label),
                            Append(f.preds,
                                   Prediction(rand_label, rand_confidence(f.confidence, fc))))]
        /\ UNCHANGED <<fs, labels>>
        /\ UNCHANGED held_call
        /\ UNCHANGED bookkeeping

\* the loop of thread t has ended (range exhausted or break): sort, return
thread_sort(t) ==
    LET f == calls[t]
    IN  /\ f.at = "loop"
        /\ (f.i > f.k \/ f.remaining = <<>>)
        /\ calls' = [calls EXCEPT ![t] =
                Frame("done", f.method, f.img, f.type, f.confidence, 0, 0, <<>>,
                      SortDescending(f.preds))]
        /\ UNCHANGED <<fs, labels>>
        /\ UNCHANGED held_call
        /\ UNCHANGED bookkeeping

\* the caller in thread t has used the result
thread_return(t) ==
    /\ calls[t].at = "done"
    /\ calls' = [calls EXCEPT ![t] = IdleFrame]
    /\ UNCHANGED <<fs, labels>>
    /\ UNCHANGED held_call
    /\ UNCHANGED bookkeeping

----------------------------------------------------------------------------
(* The points bookkeeping: PointsSystem, ChallengeSystem and the database  *)
(* calls they make, for one user on one day.                               *)

POINTS_PER_SCAN == 5
POINTS_PER_CORRECT_DISPOSAL == 10
MAX_DAILY_POINTS == 100

\* calls made in a run of the sequential callers
MaxCalls == 8
\* calls made in a run of the concurrent callers
MaxThreadCalls == 3
\* the largest goal_target of the user's challenge
MaxTarget == 2

ACHIEVEMENT_LEVELS ==
    <<"Beginner", "Intermediate", "Advanced", "Expert", "Master">>

level_thresholds ==
    [Beginner |-> 0, Intermediate |-> 100, Advanced |-> 500, Expert |-> 1000,
     Master |-> 5000]

RECURSIVE level_loop(_, _, _)
level_loop(points, i, current_level) ==
    IF i > Len(ACHIEVEMENT_LEVELS) THEN current_level
    ELSE level_loop(points, i + 1,
                    IF points >= level_thresholds[ACHIEVEMENT_LEVELS[i]]
                    THEN ACHIEVEMENT_LEVELS[i] ELSE current_level)

\* the last level whose threshold the points have reached
_calculate_level(points) == level_loop(points, 1, ACHIEVEMENT_LEVELS[1])

hard_to_recycle == {"electronic_waste", "batteries", "light_bulb", "styrofoam"}

\* the document insert_one stores for a scan
scan_doc(waste_type) == [waste_type |-> waste_type, points_earned |-> 0]

record_scan(s, waste_type) ==
    [s EXCEPT !.scans = Append(@, scan_doc(waste_type))]

RECURSIVE sum_points_earned(_)
sum_points_earned(scans) ==
    IF scans = <<>> THEN 0
    ELSE Head(scans).points_earned + sum_points_earned(Tail(scans))

\* the points_earned of today's scans, summed
_get_daily_points(s) == sum_points_earned(s.scans)

\* update_one with $set: the document after it, and whether it was modified
set_points(s, new_points) ==
    [store |-> [s EXCEPT !.points = new_points,
                         !.level = _calculate_level(new_points)],
     modified |-> s.points # new_points \/ s.level # _calculate_level(new_points)]

\* update_user_points run without interruption: find_one, then update_one
update_user_points(s, points_to_add) == set_points(s, s.points + points_to_add)

\* the row of challenges joined to the user's row of user_challenges
Challenge(goal_type, goal_target, points_reward) ==
    [goal_type |-> goal_type, goal_target |-> goal_target,
     points_reward |-> points_reward]

Challenges ==
    { Challenge("scan_count", t, 50) : t \in 1..MaxTarget } \cup
    { Challenge("recycle_type", 2, 15) }

\* the achievement "First Scan"
FirstScan == [requirement |-> "scan_count", threshold |-> 1, points_reward |-> 10]

Store(points, scans, challenge) ==
    [points |-> points, level |-> _calculate_level(points), scans |-> scans,
     challenge |-> challenge, progress |-> 0, completed |-> FALSE,
     achievements |-> 0, pending |-> 0]

NoStore == Store(0, <<>>, Challenge("scan_count", 1, 50))

Ledger(initial) ==
    [initial |-> initial, calls |-> 0, awarded |-> 0, rewards |-> 0,
     late |-> 0, credited |-> 0, failed |-> 0, granted |-> 0]

NoLedger == Ledger(0)

\* a worker's frame: the user document it read, the points it adds
Worker(at, add, points, level, earned) ==
    [pc |-> at, add |-> add, points |-> points, level |-> level,
     earned |-> earned]

IdleWorker == Worker("idle", 0, 0, "Beginner", FALSE)

NoWorkers == [t \in ThreadIds |-> IdleWorker]

\* a call of award_scan_points or award_disposal_points has returned
\* {'points_earned': n}
Awarded(n) == [ledger EXCEPT !.calls = @ + 1, !.awarded = @ + n]

\* points_earned clamped to what is left of the daily limit
clamp(points_earned, daily_points) ==
    IF points_earned > MAX_DAILY_POINTS - daily_points
    THEN MAX_DAILY_POINTS - daily_points ELSE points_earned

award_scan_points ==
    /\ ledger.calls < MaxCalls
    /\ \E waste_type \in {None, "paper"} :
        LET daily_points == _get_daily_points(store)
            points_earned == clamp(POINTS_PER_SCAN, daily_points)
            updated_user == update_user_points(store, points_earned)
        IN  IF daily_points >= MAX_DAILY_POINTS
            THEN store' = store /\ ledger' = Awarded(0)
            ELSE /\ store' = IF waste_type # None
                             THEN record_scan(updated_user.store, waste_type)
                             ELSE updated_user.store
                 /\ ledger' = Awarded(IF updated_user.modified
                                      THEN points_earned ELSE 0)
    /\ UNCHANGED workers
    /\ UNCHANGED classifier

award_disposal_points ==
    /\ ledger.calls < MaxCalls
    /\ \E waste_type \in {"paper", "batteries"} :
        LET base == IF waste_type \in hard_to_recycle
                    THEN POINTS_PER_CORRECT_DISPOSAL + 5
                    ELSE POINTS_PER_CORRECT_DISPOSAL
            daily_points == _get_daily_points(store)
            points_earned == clamp(base, daily_points)
            updated_user == update_user_points(store, points_earned)
        IN  IF daily_points >= MAX_DAILY_POINTS
            THEN store' = store /\ ledger' = Awarded(0)
            ELSE /\ store' = updated_user.store
                 /\ ledger' = Awarded(IF updated_user.modified
                                      THEN points_earned ELSE 0)
    /\ UNCHANGED workers
    /\ UNCHANGED classifier

\* _add_points_to_user: SELECT, UPDATE users, conn.commit()
_add_points_to_user(s, points) ==
    [s EXCEPT !.points = @ + points,
              !.level = _calculate_level(s.points + points),
              !.achievements = @ + s.pending,
              !.pending = 0]

\* goal_type.split('_')[1]
split_1(goal_type) ==
    CASE goal_type = "scan_type" -> "type"
      [] goal_type = "recycle_type" -> "type"
      [] goal_type = "scan_count" -> "count"

\* the prefixes of a waste type that are words of it
Prefixes(waste_type) ==
    CASE waste_type = "glass_bottle" -> {"glass", "glass_bottle"}
      [] waste_type = "paper" -> {"paper"}
      [] OTHER -> {}

startswith(waste_type, prefix) == prefix \in Prefixes(waste_type)

\* the query without its test of completed
active_challenges_completed_too(s, goal_type) ==
    s.challenge.goal_type = goal_type

\* WHERE uc.completed = 0 AND c.goal_type = ?
active_challenges(s, goal_type) ==
    ~s.completed /\ s.challenge.goal_type = goal_type

progress_updated(challenge, goal_type, waste_type) ==
    IF goal_type = "scan_type" \/ goal_type = "recycle_type"
    THEN waste_type # None /\
         (startswith(waste_type, split_1(challenge.goal_type)) \/
          split_1(challenge.goal_type) = "any")
    ELSE TRUE

update_challenge_progress ==
    /\ ledger.calls < MaxCalls
    /\ \E goal_type \in {"scan_count", "recycle_type"},
          waste_type \in {None, "glass_bottle"} :
        LET new_progress == store.progress + 1
            done == new_progress >= store.challenge.goal_target
            progressed == [store EXCEPT !.progress = new_progress,
                                        !.completed = done]
            called == [ledger EXCEPT
                          !.calls = @ + 1,
                          !.late = IF store.completed /\
                                      store.challenge.goal_type = goal_type
                                   THEN 1 ELSE @]
        IN  IF active_challenges(store, goal_type) /\
               progress_updated(store.challenge, goal_type, waste_type)
            THEN IF done
                 THEN /\ store' = _add_points_to_user(progressed,
                                      store.challenge.points_reward)
                      /\ ledger' = [called EXCEPT !.rewards = @ + 1]
                 ELSE store' = progressed /\ ledger' = called
            ELSE store' = store /\ ledger' = called
    /\ UNCHANGED workers
    /\ UNCHANGED classifier

\* the points a caller adds: a scan, a disposal, a disposal with the bonus
PointsToAdd ==
    {POINTS_PER_SCAN, POINTS_PER_CORRECT_DISPOSAL, POINTS_PER_CORRECT_DISPOSAL + 5}

\* update_user_points in thread t, up to the answer of find_one
find_one(t) ==
    /\ workers[t].pc = "idle"
    /\ ledger.calls < MaxThreadCalls
    /\ \E points_to_add \in PointsToAdd :
        workers' = [workers EXCEPT ![t] =
            Worker("found", points_to_add, store.points, store.level, FALSE)]
    /\ ledger' = [ledger EXCEPT !.calls = @ + 1]
    /\ UNCHANGED store
    /\ UNCHANGED classifier

\* update_user_points in thread t, from update_one to the return
update_one(t) ==
    /\ workers[t].pc = "found"
    /\ LET result == set_points(store, workers[t].points + workers[t].add)
       IN  /\ store' = result.store
           /\ ledger' = IF result.modified
                        THEN [ledger EXCEPT !.credited = @ + workers[t].add]
                        ELSE [ledger EXCEPT !.failed = @ + 1]
    /\ workers' = [workers EXCEPT ![t] = IdleWorker]
    /\ UNCHANGED classifier

\* the rows of user_achievements the shared connection shows
visible_rows(s) == s.achievements + s.pending

\* conn.commit() and conn.rollback() on the shared connection
commit(s) == [s EXCEPT !.achievements = @ + s.pending, !.pending = 0]
rollback(s) == [s EXCEPT !.pending = 0]

\* the unique key of user_achievements on (user_id, achievement_id)
violates_unique(s) == visible_rows(s) > 0

\* SELECT COUNT(*) FROM scans WHERE user_id = ?
_get_achievement_progress(s) == Len(s.scans)

\* check_achievements in thread t, up to earned_ids
select_earned(t) ==
    /\ workers[t].pc = "idle"
    /\ ledger.calls < MaxThreadCalls
    /\ workers' = [workers EXCEPT ![t] =
           Worker("selected", 0, 0, "Beginner", visible_rows(store) > 0)]
    /\ ledger' = [ledger EXCEPT !.calls = @ + 1]
    /\ UNCHANGED store
    /\ UNCHANGED classifier

\* check_achievements in thread t: the test of the achievement and the INSERT
insert_achievement(t) ==
    /\ workers[t].pc = "selected"
    /\ IF ~workers[t].earned /\
          _get_achievement_progress(store) >= FirstScan.threshold
       THEN IF violates_unique(store)
            THEN /\ store' = rollback(store)
                 /\ workers' = [workers EXCEPT ![t] = IdleWorker]
            ELSE /\ store' = [store EXCEPT !.pending = @ + 1]
                 /\ workers' = [workers EXCEPT ![t].pc = "inserted"]
       ELSE /\ store' = store
            /\ workers' = [workers EXCEPT ![t].pc = "checked"]
    /\ UNCHANGED ledger
    /\ UNCHANGED classifier

\* check_achievements in thread t: award_points_for_challenge
award_points_for_challenge(t) ==
    /\ workers[t].pc = "inserted"
    /\ store' = _add_points_to_user(store, FirstScan.points_reward)
    /\ ledger' = [ledger EXCEPT !.granted = @ + 1]
    /\ workers' = [workers EXCEPT ![t].pc = "checked"]
    /\ UNCHANGED classifier

\* check_achievements in thread t: conn.commit() and the return
commit_achievements(t) ==
    /\ workers[t].pc = "checked"
    /\ store' = commit(store)
    /\ workers' = [workers EXCEPT ![t] = IdleWorker]
    /\ UNCHANGED ledger
    /\ UNCHANGED classifier

----------------------------------------------------------------------------
(* Specifications.                                                         *)

\* the classifier before its construction
ClassifierNotConstructed ==
    /\ labels = <<>>
    /\ pc = "new"
    /\ op = "none"
    /\ NoCall
    /\ calls = NoCalls

NotConstructed ==
    /\ ClassifierNotConstructed
    /\ store = NoStore
    /\ ledger = NoLedger
    /\ workers = NoWorkers

\* the classifier and its callers, on the images of RankImages
Init == fs \in MainFs /\ NotConstructed

Next ==
    \/ __init__
    \/ get_top_prediction
    \/ get_all_predictions
    \/ _detect_metallic_surface_call
    \/ consume

Spec == Init /\ [][Next]_vars

\* the decision cascade on the whole grid of feature values, with the
\* built-in vocabulary
InitCascade == fs = NoFiles /\ NotConstructed

NextCascade == __init__ \/ classify \/ consume

SpecCascade == InitCascade /\ [][NextCascade]_vars

\* the constructor under every arrangement of the candidate paths
InitLoad == fs \in FsStates /\ NotConstructed

NextLoad == __init__

SpecLoad == InitLoad /\ [][NextLoad]_vars

\* _detect_metallic_surface on the grid of its components
NextSurface == __init__ \/ score_surface \/ consume

SpecSurface == InitCascade /\ [][NextSurface]_vars

\* two threads calling the classifier concurrently, the vocabulary read
\* from a labels file with the lines aluminum_can and paper
InitThreads ==
    /\ fs = [NoFiles EXCEPT ![1] =
                Readable(<< Line(0, "aluminum_can", 1), Line(1, "paper", 2) >>)]
    /\ NotConstructed

NextThreads ==
    \/ __init__
    \/ \E t \in ThreadIds :
          \/ thread_call(t)
          \/ thread_top(t)
          \/ thread_begin(t)
          \/ thread_pick(t)
          \/ thread_sort(t)
          \/ thread_return(t)

SpecThreads == InitThreads /\ [][NextThreads]_vars

\* the points system and the challenge system called one call at a time
InitPoints ==
    /\ fs = NoFiles
    /\ ClassifierNotConstructed
    /\ \E challenge \in Challenges : store = Store(0, <<>>, challenge)
    /\ ledger = NoLedger
    /\ workers = NoWorkers

NextPoints ==
    award_scan_points \/ award_disposal_points \/ update_challenge_progress

SpecPoints == InitPoints /\ [][NextPoints]_vars

\* the points a user starts the day with
InitialPoints == {0, 90, 95}

\* update_user_points called from two threads
InitWorkers ==
    /\ fs = NoFiles
    /\ ClassifierNotConstructed
    /\ \E points \in InitialPoints :
        /\ store = Store(points, <<>>, Challenge("scan_count", 1, 50))
        /\ ledger = Ledger(points)
    /\ workers = NoWorkers

NextWorkers == \E t \in ThreadIds : find_one(t) \/ update_one(t)

SpecWorkers == InitWorkers /\ [][NextWorkers]_vars

\* check_achievements called from two threads
InitAchievements ==
    /\ fs = NoFiles
    /\ ClassifierNotConstructed
    /\ \E points \in InitialPoints, scans \in {<<>>, <<scan_doc("paper")>>} :
        /\ store = Store(points, scans, Challenge("scan_count", 1, 50))
        /\ ledger = Ledger(points)
    /\ workers = NoWorkers

NextAchievements ==
    \E t \in ThreadIds :
        \/ select_earned(t)
        \/ insert_achievement(t)
        \/ award_points_for_challenge(t)
        \/ commit_achievements(t)

SpecAchievements == InitAchievements /\ [][NextAchievements]_vars

----------------------------------------------------------------------------
(* Properties.                                                             *)

\* a call on a decodable image has returned
ReturnedDecoded == pc = "returned" /\ img.decode = "ok"

InVocabulary(type) == \E i \in DOMAIN labels : labels[i] = type

CascadeLabels ==
    {"aluminum_can", "plastic_bottle", "glass_bottle", "cardboard", "paper",
     "plastic_container"}

\* C1: for every decodable image and every vocabulary the classifier was
\* constructed with, the label get_top_prediction returns is a member of
\* self.labels (stated for the calls that return a label, the vocabulary
\* not empty).
C1_LabelInVocabulary ==
    (ReturnedDecoded /\ op = "get_top_prediction" /\ top_type # None /\ labels # <<>>) =>
        InVocabulary(top_type)

\* C2: every confidence get_top_prediction returns for a decodable image
\* lies in [0, 1], in every branch of the cascade and in the no-contour
\* branch.
C2_ConfidenceInUnitInterval ==
    (ReturnedDecoded /\ top_type # None) =>
        (0 <= top_confidence /\ top_confidence <= ConfOne)

\* C2 witness: the can branch returned its largest confidence, 0.88 + 0.05.
C2_Witness ==
    ReturnedDecoded /\ branch = "can" /\ top_confidence = 930000

\* C3: the list get_all_predictions returns is sorted by confidence in
\* non-increasing order and its first element is the top prediction of the
\* get_top_prediction call made inside.
C3_SortedTopFirst ==
    (op = "get_all_predictions" /\ predictions # <<>>) =>
        /\ \A i \in 1..(Len(predictions) - 1) :
              predictions[i].confidence >= predictions[i + 1].confidence
        /\ predictions[1] = Prediction(top_type, top_confidence)

\* C3 witness: a returned list whose alternatives have different confidences.
C3_Witness ==
    /\ op = "get_all_predictions"
    /\ Len(predictions) >= 3
    /\ predictions[2].confidence > predictions[3].confidence

\* the entries of self.labels that differ from the top label
OtherLabels == Cardinality({i \in DOMAIN labels : labels[i] # top_type})

C5_NoContourFallback ==
    (ReturnedDecoded /\ img.contours = 0) =>
        /\ InVocabulary(top_type)
        /\ 500000 <= top_confidence /\ top_confidence <= 700000

\* brightness_std > 40, avg_saturation < 50 and aspect ratio exactly 2.0
BottleScenario ==
    /\ ReturnedDecoded
    /\ img.contours > 0
    /\ img.brightness_std > 40
    /\ img.avg_saturation < 50
    /\ img.w > 0 /\ img.h = 2 * img.w

\* the can test of branch 1 on the held image, from its feature values
CanTestHolds ==
    /\ \/ 10 * _detect_metallic_surface(img) > 6 * ScoreOne
       \/ (img.avg_value > 160 /\ img.brightness_std > 25)
    /\ 100 * img.area2 > 130 * img.w * img.h

\* C6 as claimed: with a contour, brightness_std > 40, avg_saturation < 50
\* and aspect ratio 2.0, whatever the other features, get_top_prediction
\* selects plastic_bottle via branch 2 with confidence in [0.80, 0.90].
C6_AlwaysPlasticBottle ==
    BottleScenario =>
        /\ top_type = "plastic_bottle"
        /\ branch = "plastic_bottle"
        /\ 800000 <= top_confidence /\ top_confidence <= 900000

\* C6 amended: in that scenario get_top_prediction selects plastic_bottle
\* via branch 2 with confidence in [0.80, 0.90] unless the can test of
\* branch 1 holds (fill ratio > 0.65 and metallic_score > 0.6 or
\* avg_value > 160); when it holds, branch 1 wins and the result is
\* aluminum_can with confidence in [0.83, 0.93].
C6_PlasticBottleUnlessCan ==
    /\ (BottleScenario /\ ~CanTestHolds) =>
          /\ top_type = "plastic_bottle"
          /\ branch = "plastic_bottle"
          /\ 800000 <= top_confidence /\ top_confidence <= 900000
    /\ (BottleScenario /\ CanTestHolds) =>
          /\ top_type = "aluminum_can"
          /\ branch = "can"
          /\ 830000 <= top_confidence /\ top_confidence <= 930000

\* C6 witness: the scenario with a sparsely filled box: branch 2 decided.
C6_Witness ==
    BottleScenario /\ ~CanTestHolds /\ img.avg_value > 160 /\ branch = "plastic_bottle"

\* uniformly bright and unsaturated (every pixel passes the metallic colour
\* mask, brightness_std at most 25), the largest contour filling more than
\* 65% of its box, aspect ratio exactly 1.2
UniformScenario ==
    /\ ReturnedDecoded
    /\ img.contours > 0
    /\ img.avg_value > 160
    /\ img.avg_saturation < 50
    /\ img.brightness_std <= 25
    /\ img.surface.metallic_color_ratio = 1000
    /\ ~img.surface.raises
    /\ 100 * img.area2 > 130 * img.w * img.h
    /\ 5 * img.h = 6 * img.w

\* C7 as claimed: in the uniform scenario get_top_prediction returns
\* aluminum_can with confidence in [0.83, 0.93].
C7_UniformIsCan ==
    UniformScenario =>
        /\ top_type = "aluminum_can"
        /\ 830000 <= top_confidence /\ top_confidence <= 930000

\* C7 amended: in the uniform scenario get_top_prediction returns
\* aluminum_can with confidence in [0.83, 0.93] exactly when metallic_score
\* exceeds 0.6; brightness_std <= 25 fails the brightness test, and with
\* metallic_score <= 0.6 the fallback sub-cascade decides.
C7_UniformIsCanWhenMetallic ==
    /\ (UniformScenario /\ 10 * _detect_metallic_surface(img) > 6 * ScoreOne) =>
          /\ top_type = "aluminum_can"
          /\ branch = "can"
          /\ 830000 <= top_confidence /\ top_confidence <= 930000
    /\ (UniformScenario /\ 10 * _detect_metallic_surface(img) <= 6 * ScoreOne) =>
          branch \in {"fallback_can", "cardboard", "paper", "default"}

\* C7 witness: the uniform scenario with a textured surface: branch 1 decided.
C7_Witness ==
    UniformScenario /\ branch = "can" /\ img.surface.texture_energy = 1000

\* the file _load_labels opens is the first candidate that exists
NoReadableLabels ==
    LET found == {p \in CandidatePaths : fs[p].exists}
    IN  \/ found = {}
        \/ \E p \in found : (\A q \in found : p <= q) /\ ~fs[p].readable

\* C8: when no labels file exists at any candidate path, or reading one
\* raises, the constructor completes and self.labels is the built-in list
\* of 15 entries.
C8_DefaultVocabulary ==
    (pc # "new" /\ NoReadableLabels) =>
        /\ op = "__init__"
        /\ Len(labels) = 15
        /\ labels = DEFAULT_LABELS

\* C8 witness: labels_path exists and cannot be read, although a readable
\* file lies at a later candidate path.
C8_Witness ==
    /\ pc = "idle"
    /\ fs[1] = Unreadable
    /\ fs[2].readable
    /\ labels = DEFAULT_LABELS

\* C9: when the image cannot be read or decoded, get_top_prediction returns
\* (None, None) and get_all_predictions returns an empty list.
C9_UndecodableSentinel ==
    (pc = "returned" /\ img.decode # "ok") =>
        /\ top_type = None
        /\ top_confidence = NoneConfidence
        /\ op \in {"get_top_prediction", "get_all_predictions"}
        /\ predictions = <<>>

\* C9 witness: get_all_predictions returned for an image cv2.imread rejects.
C9_Witness ==
    /\ pc = "returned"
    /\ op = "get_all_predictions"
    /\ img.decode = "none"
    /\ num_additional = 0

\* C10: for every image with at least one contour get_top_prediction
\* returns exactly one label, not None, among the six labels of the cascade.
C10_CascadeTotal ==
    (ReturnedDecoded /\ img.contours > 0) =>
        /\ top_type \in CascadeLabels
        /\ top_confidence # NoneConfidence
        /\ branch \in {"can", "plastic_bottle", "glass_bottle", "fallback_can",
                       "cardboard", "paper", "default"}

\* C10 witness: the final else produced plastic_container.
C10_Witness ==
    /\ ReturnedDecoded
    /\ img.contours > 0
    /\ branch = "default"
    /\ top_type = "plastic_container"

\* the get_top_prediction call of thread t has returned
TopReturned(t) == calls[t].at \in {"done", "top_returned", "loop"}

\* C11 as claimed: two get_top_prediction calls on the same image, on the
\* same instance, return the same label.
C11_SameImageSameLabel ==
    \A s, t \in ThreadIds :
        (TopReturned(s) /\ TopReturned(t) /\ calls[s].img = calls[t].img) =>
            calls[s].type = calls[t].type

\* C11 amended: two get_top_prediction calls on the same image return the
\* same label when the image has at least one contour or does not decode
\* (the random draw then reaches the confidence only); for a decoded image
\* without contours the label itself is drawn by random.choice from
\* self.labels, and two calls may return different labels.
C11_SameLabelUnlessNoContour ==
    \A s, t \in ThreadIds :
        (TopReturned(s) /\ TopReturned(t) /\ calls[s].img = calls[t].img) =>
            /\ (calls[s].img.decode # "ok" \/ calls[s].img.contours > 0) =>
                  calls[s].type = calls[t].type
            /\ (calls[s].img.decode = "ok" /\ calls[s].img.contours = 0) =>
                  \E i \in DOMAIN labels : calls[s].type = labels[i]

\* C11 witness: two calls on the same image with a contour returned the same
\* label with different confidences.
C11_Witness ==
    /\ calls["t1"].at = "done" /\ calls["t2"].at = "done"
    /\ calls["t1"].method = "get_top_prediction"
    /\ calls["t2"].method = "get_top_prediction"
    /\ calls["t1"].img = calls["t2"].img
    /\ calls["t1"].img.contours > 0
    /\ calls["t1"].type = calls["t2"].type
    /\ calls["t1"].confidence # calls["t2"].confidence

\* what get_top_prediction can return for `image` when it runs alone on the
\* instance as constructed
TopAlone(image) ==
    { TopPrediction(image, _load_labels(fs), j, u) :
        j \in JitterDraws(image), u \in ChoiceDraws(image) }

\* the list `preds` is one get_all_predictions can return after `top` when
\* it runs alone on the instance as constructed
AllAlone(top, preds) ==
    IF Falsy(top.type) THEN preds = <<>>
    ELSE \E k \in 2..4 :
            LET n == Min(k, Len(remaining_labels(_load_labels(fs), top.type)))
            IN  \E us \in [1..n -> 0..RandSteps], fcs \in [1..n -> 0..FactorSteps] :
                   preds = AllPredictions(top, _load_labels(fs), k, us, fcs)

\* the result held by thread t is one its call can return when run alone
PossibleAlone(t) ==
    \E top \in TopAlone(calls[t].img) :
        /\ top.type = calls[t].type
        /\ top.confidence = calls[t].confidence
        /\ calls[t].method = "get_all_predictions" => AllAlone(top, calls[t].preds)

\* C12: whatever the interleaving of the get_top_prediction and
\* get_all_predictions calls of concurrent threads on one instance, every
\* call returns a result that the same call can return when it runs alone;
\* self.labels is the same while they run.
C12_ConcurrentAsAlone ==
    /\ \A t \in ThreadIds : calls[t].at = "done" => PossibleAlone(t)
    /\ pc # "new" => labels = _load_labels(fs)

\* C12 witness: one thread holds the list of a finished get_all_predictions
\* call while the other is inside the loop of its own.
C12_Witness ==
    /\ calls["t1"].at = "done"
    /\ calls["t1"].method = "get_all_predictions"
    /\ Len(calls["t1"].preds) = 2
    /\ calls["t2"].at = "loop"
    /\ calls["t2"].i = 2

\* C13: after construction every step of the caller, whether it is a
\* get_top_prediction, get_all_predictions or _detect_metallic_surface call,
\* successful or failing, or the use of a result, leaves self.labels with
\* the same entries in the same order; the engine holds no other state
\* that a call writes.
C13_LabelsUnchanged == [][pc # "new" => labels' = labels]_vars

\* C13 witness: get_all_predictions returned five entries and the built-in
\* vocabulary still has its 15 entries in their order.
C13_Witness ==
    /\ pc = "returned"
    /\ op = "get_all_predictions"
    /\ Len(predictions) = 5
    /\ labels = DEFAULT_LABELS

\* C14: _detect_metallic_surface always returns, and what it returns lies
\* in [0, 1], whatever the values of texture_energy, brightness_std,
\* contour_density and metallic_color_ratio; when a cv2 call raises inside,
\* it returns 0.0.
C14_ScoreInUnitInterval ==
    (pc = "returned" /\ op = "_detect_metallic_surface") =>
        /\ 0 <= metallic_score /\ metallic_score <= ScoreOne
        /\ img.surface.raises => metallic_score = 0

\* C14 witness: the weighted sum times 1.5 exceeded 1.0 and the cap applied.
C14_Witness ==
    /\ pc = "returned"
    /\ op = "_detect_metallic_surface"
    /\ 3 * WeightedSum(img) > ScoreOne
    /\ metallic_score = ScoreOne

\* C16 as claimed: every list get_all_predictions returns is strictly
\* descending by confidence: no two consecutive entries have equal
\* confidence.
C16_StrictlyDescending ==
    (op = "get_all_predictions") =>
        \A i \in 1..(Len(predictions) - 1) :
            predictions[i].confidence > predictions[i + 1].confidence

\* C16 amended: every list get_all_predictions returns is non-increasing by
\* confidence, and its first entry, the top prediction, has a confidence
\* strictly above every other entry's; two alternatives have equal
\* confidence when their factor draws coincide, and then keep the order in
\* which they were drawn.
C16_DescendingTopStrict ==
    (op = "get_all_predictions") =>
        /\ \A i \in 1..(Len(predictions) - 1) :
              predictions[i].confidence >= predictions[i + 1].confidence
        /\ \A i \in 2..Len(predictions) :
              predictions[1].confidence > predictions[i].confidence

\* C16 witness: two alternatives with different labels and equal confidence.
C16_Witness ==
    /\ op = "get_all_predictions"
    /\ Len(predictions) >= 3
    /\ predictions[2].confidence = predictions[3].confidence
    /\ predictions[2].label # predictions[3].label
    /\ predictions[1].confidence > predictions[2].confidence

\* get_top_prediction returned for an image whose largest contour has a
\* bounding box of positive width and height
ReturnedWithContour ==
    ReturnedDecoded /\ op = "get_top_prediction" /\ img.contours > 0 /\ img.w > 0 /\ img.h > 0

\* 1.5 < aspect_ratio < 4.0 on the held image
BottleRange == 15 * img.w < 10 * img.h /\ img.h < 4 * img.w

\* the condition of branch 1 (line 236) on the held image
Branch1Holds ==
    /\ (img.h < 2 * img.w \/ (8 * img.w < 10 * img.h /\ 10 * img.h < 25 * img.w))
    /\ \/ 10 * metallic_score > 6 * ScoreOne
       \/ (img.avg_value > 160 /\ img.brightness_std > 25)
    /\ 100 * img.area2 > 130 * img.w * img.h

\* the condition of branch 2 (line 247) on the held image
Branch2Holds == img.brightness_std > 40 /\ img.avg_saturation < 50 /\ BottleRange

\* the condition of branch 3 (lines 254-257) on the held image
Branch3Holds ==
    /\ img.brightness_std > 30
    /\ img.avg_saturation < 40
    /\ BottleRange
    /\ img.avg_value > 150

\* C17: whenever a contour exists and the can rule holds (aspect ratio
\* below 2.0 or between 0.8 and 2.5, metallic_score > 0.6 or avg_value > 160
\* with brightness_std > 25, fill ratio > 0.65), get_top_prediction returns
\* aluminum_can with confidence in [0.83, 0.93], also when the conditions of
\* the plastic_bottle or glass_bottle branch hold.
C17_CanRuleFirst ==
    (ReturnedWithContour /\ Branch1Holds) =>
        /\ top_type = "aluminum_can"
        /\ branch = "can"
        /\ 830000 <= top_confidence /\ top_confidence <= 930000

\* C17 witness: the can rule decided although the plastic_bottle and the
\* glass_bottle conditions both held.
C17_Witness ==
    ReturnedWithContour /\ Branch1Holds /\ Branch2Holds /\ Branch3Holds /\ branch = "can"

\* C18: when the conditions of branches 1 and 2 do not hold and
\* brightness_std > 30, avg_saturation < 40, the aspect ratio lies between
\* 1.5 and 4.0 and avg_value > 150, get_top_prediction returns glass_bottle
\* with confidence in [0.77, 0.87].
C18_GlassBottle ==
    (ReturnedWithContour /\ ~Branch1Holds /\ ~Branch2Holds /\ Branch3Holds) =>
        /\ top_type = "glass_bottle"
        /\ branch = "glass_bottle"
        /\ 770000 <= top_confidence /\ top_confidence <= 870000

\* C18 witness: glass_bottle with the smallest confidence, for a bright
\* image of aspect ratio 2.0 that failed the can rule on its fill ratio only.
C18_Witness ==
    /\ ReturnedWithContour
    /\ branch = "glass_bottle"
    /\ top_confidence = 770000
    /\ img.h = 2 * img.w
    /\ img.avg_value > 160
    /\ 100 * img.area2 <= 130 * img.w * img.h

\* the cardboard and the paper thresholds of the fallback on the held image
CardboardHolds == img.avg_hue < 30 /\ img.avg_value < 150 /\ img.avg_saturation > 20
PaperHolds == img.avg_hue < 60 /\ img.avg_value > 170 /\ img.brightness_std < 50

\* none of the conditions of branches 1 to 3 holds for the held image
FallbackReached ==
    ReturnedWithContour /\ ~Branch1Holds /\ ~Branch2Holds /\ ~Branch3Holds

\* C19: when none of branches 1 to 3 matches, metallic_score > 0.5 gives
\* aluminum_can with confidence in [0.60, 0.80], also when the cardboard or
\* paper thresholds hold; otherwise the cardboard thresholds give cardboard
\* (0.75 +- 0.10), otherwise the paper thresholds give paper (0.72 +- 0.10),
\* and everything else gives plastic_container (0.70 +- 0.10).
C19_FallbackOrder ==
    FallbackReached =>
        IF 10 * metallic_score > 5 * ScoreOne
        THEN /\ top_type = "aluminum_can"
             /\ 600000 <= top_confidence /\ top_confidence <= 800000
        ELSE IF CardboardHolds
        THEN /\ top_type = "cardboard"
             /\ 650000 <= top_confidence /\ top_confidence <= 850000
        ELSE IF PaperHolds
        THEN /\ top_type = "paper"
             /\ 620000 <= top_confidence /\ top_confidence <= 820000
        ELSE /\ top_type = "plastic_container"
             /\ 600000 <= top_confidence /\ top_confidence <= 800000

\* C19 witness: the metallic fallback decided although the cardboard
\* thresholds held.
C19_Witness ==
    /\ FallbackReached
    /\ CardboardHolds
    /\ branch = "fallback_can"
    /\ top_type = "aluminum_can"

\* C20: for every loaded vocabulary the labels of one list returned by
\* get_all_predictions are pairwise distinct, so that no alternative has
\* the top label and no label is drawn twice.
C20_PairwiseDistinct ==
    (op = "get_all_predictions") =>
        \A i, k \in DOMAIN predictions :
            i # k => predictions[i].label # predictions[k].label

\* C21: in a list get_all_predictions returns, the confidence of every
\* entry after the top one is top_confidence times a factor in [0.3, 0.8]:
\* it lies between 0.3 * top_confidence and 0.8 * top_confidence, and in
\* [0, 1].
C21_AlternativeIsScaledTop ==
    (op = "get_all_predictions") =>
        \A i \in 2..Len(predictions) :
            /\ \E pct \in 30..80 : 100 * predictions[i].confidence = pct * top_confidence
            /\ 30 * top_confidence <= 100 * predictions[i].confidence
            /\ 100 * predictions[i].confidence <= 80 * top_confidence
            /\ 0 <= predictions[i].confidence /\ predictions[i].confidence <= ConfOne

\* C21 witness: a list holding an alternative at 0.8 times and one at 0.3
\* times the top confidence.
C21_Witness ==
    /\ op = "get_all_predictions"
    /\ Len(predictions) >= 3
    /\ \E i, k \in 2..Len(predictions) :
          /\ 100 * predictions[i].confidence = 80 * top_confidence
          /\ 100 * predictions[k].confidence = 30 * top_confidence

\* the contour density of the held image: contours per pixel times 10000,
\* per-mille, capped at 1.0
CappedDensity ==
    LET d == (img.surface.otsu_contours * 10000000) \div img.surface.pixels
    IN  IF d > 1000 THEN 1000 ELSE d

\* 0.3*texture_energy + 0.3*(brightness_std/255) + 0.2*contour_density
\* + 0.2*metallic_color_ratio of the held image, with 1.0 = 2550000
ClaimedSum ==
    765 * img.surface.texture_energy + 3000 * img.brightness_std
    + 510 * CappedDensity + 510 * img.surface.metallic_color_ratio

\* C22: when no cv2 call raises, the score _detect_metallic_surface returns
\* is min(1.5 * (0.3*texture_energy + 0.3*(brightness_std/255)
\* + 0.2*contour_density + 0.2*metallic_color_ratio), 1.0), with
\* contour_density capped at 1.0 before it is weighted and the factor 1.5
\* applied before the clamp.
C22_MetallicFormula ==
    (pc = "returned" /\ op = "_detect_metallic_surface" /\ ~img.surface.raises) =>
        /\ metallic_score = IF 3 * ClaimedSum > ScoreOne
                            THEN ScoreOne ELSE 3 * ClaimedSum
        /\ 2 * ClaimedSum <= ScoreOne

\* C22 witness: 25 contours per 10000 pixels, so the density cap applied,
\* and a score below the clamp: 1.5 * 0.2 = 0.3.
C22_Witness ==
    /\ pc = "returned"
    /\ op = "_detect_metallic_surface"
    /\ img.surface.otsu_contours * 10000 > img.surface.pixels
    /\ 10 * metallic_score = 3 * ScoreOne

C24_CanShapeIsBelowTwoAndAHalf ==
    ReturnedWithContour =>
        /\ is_can_shape(img) <=> 10 * img.h < 25 * img.w
        /\ (10 * img.h < 25 * img.w /\ Branch1Holds) => branch = "can"

\* C24 witness: a contour of aspect ratio 0.5 classified by the can rule.
C24_Witness ==
    /\ ReturnedWithContour
    /\ img.w = 2 * img.h
    /\ branch = "can"
    /\ top_type = "aluminum_can"

\* C25: in every list get_all_predictions returns, the top confidence is
\* positive and the confidence of every other entry is strictly below it,
\* in every draw; the top prediction is the first entry.
C25_AlternativesBelowTop ==
    (op = "get_all_predictions" /\ predictions # <<>>) =>
        /\ top_confidence > 0
        /\ predictions[1] = Prediction(top_type, top_confidence)
        /\ \A i \in 2..Len(predictions) : predictions[i].confidence < top_confidence

\* C25 witness: the smallest top confidence, 0.50 from the branch without
\* contours, with an alternative at the largest factor: 0.40.
C25_Witness ==
    /\ op = "get_all_predictions"
    /\ Len(predictions) >= 2
    /\ top_confidence = 500000
    /\ predictions[2].confidence = 400000

\* C26: after construction self.labels is non-empty and holds no empty
\* string, whatever the labels file found contains.
C26_VocabularyWellFormed ==
    pc # "new" =>
        /\ labels # <<>>
        /\ \A i \in DOMAIN labels : labels[i] # ""

\* C27: over any sequence of award_scan_points and award_disposal_points
\* calls for one user within one day, scans recorded through record_scan,
\* the points_earned values returned sum to at most MAX_DAILY_POINTS, and
\* once the sum has reached the limit every further call returns 0.
C27_DailyCap ==
    /\ [](ledger.awarded <= MAX_DAILY_POINTS)
    /\ [][ledger.awarded >= MAX_DAILY_POINTS =>
              ledger'.awarded = ledger.awarded]_vars

\* every call of update_user_points made so far has returned, none with None
AllReportedSuccess ==
    /\ \A t \in ThreadIds : workers[t].pc = "idle"
    /\ ledger.calls >= 2
    /\ ledger.failed = 0

\* C28: when the update_user_points calls of the two threads have all
\* returned a user document, the stored points are the initial points plus
\* the sum of every points_to_add, and the stored level is _calculate_level
\* of that total.
C28_NoLostUpdate ==
    AllReportedSuccess =>
        /\ store.points = ledger.initial + ledger.credited
        /\ store.level = _calculate_level(ledger.initial + ledger.credited)

\* the challenge's reward has been awarded once if it is completed, never
\* if it is not, and it is completed exactly when its progress is at the goal
RewardedOnceWhenCompleted ==
    /\ ledger.rewards = (IF store.completed THEN 1 ELSE 0)
    /\ store.completed <=> store.progress >= store.challenge.goal_target
    /\ store.progress <= store.challenge.goal_target
    /\ store.points = ledger.awarded + ledger.rewards * store.challenge.points_reward

C30_AwardedAtMostOnce ==
    /\ visible_rows(store) <= 1
    /\ ledger.granted <= 1

====
